---- MODULE Spec2Model ----
(***************************************************************************)
(* generate_image.py: Gemini image generation followed by an ImageKit      *)
(* upload.  main() parses the command line, builds the generator and the   *)
(* uploader, generates one image, uploads it and prints one JSON object.   *)
(*                                                                         *)
(* Python strings that the code inspects or assembles character by         *)
(* character (media types, file names, folders) are sequences of           *)
(* one-character strings.  Python's None and an absent key or attribute    *)
(* are the one-element sequences NoneS and AbsentS, which no string of     *)
(* characters equals.                                                      *)
(***************************************************************************)
EXTENDS Integers, Sequences, FiniteSets, TLC

VARIABLES
    pc,             \* position of main(): start, init_generator, init_uploader,
                    \* generate, upload, output, exited
    argv,           \* the command line, one field per flag
    env,            \* os.environ: the four credential variables
    args,           \* argparse Namespace after parse_args()
    image_bytes,    \* local of main(), line 199
    mime_type,      \* local of main(), line 199
    filename,       \* local of main(), line 207
    folder,         \* local of main(), line 210
    upload_result,  \* local of main(), line 211
    exc,            \* message of the exception caught at line 227, or NoneS
    stdout,         \* JSON objects printed to standard output
    stderr,         \* what argparse wrote to standard error
    exit_code,      \* process exit status, -1 while running
    genaiClient,    \* TRUE once genai.Client() was called (line 145)
    imagekitClient, \* TRUE once ImageKit(...) was called (line 73)
    genCalls,       \* number of generate_content requests sent (line 157)
    uploadCalls,    \* number of upload_file requests sent (line 97)
    response,       \* generate_image in isolation: the service response
    generated,      \* generate_image in isolation: what it returned or raised
    fields,         \* upload in isolation: url, fileId, name, thumbnailUrl
    requested,      \* upload in isolation: the file name asked for
    nestedResult,   \* upload in isolation: outcome on the nested-metadata shape
    flatResult      \* upload in isolation: outcome on the flat-attribute shape

mainVars == <<pc, argv, env, args, image_bytes, mime_type, filename, folder,
              upload_result, exc, stdout, stderr, exit_code, genaiClient,
              imagekitClient, genCalls, uploadCalls>>
genVars == <<response, generated>>
uplVars == <<fields, requested, nestedResult, flatResult>>
vars == <<mainVars, genVars, uplVars>>

\* Largest number of parts in a generate_content response.
MaxParts == 2

----------------------------------------------------------------------------
\* Values

NoneS == <<"<None>">>
AbsentS == <<"<absent>">>
\* An object json.dumps cannot serialise.
ObjS == <<"<object>">>

S_png == <<"p", "n", "g">>
S_jpg == <<"j", "p", "g">>
S_image_png == <<"i", "m", "a", "g", "e", "/", "p", "n", "g">>
S_image_jpeg == <<"i", "m", "a", "g", "e", "/", "j", "p", "e", "g">>
S_image_PNG == <<"i", "m", "a", "g", "e", "/", "P", "N", "G">>
S_image_apng == <<"i", "m", "a", "g", "e", "/", "a", "p", "n", "g">>
S_default == <<"d", "e", "f", "a", "u", "l", "t">>
S_ad_images == <<"a", "d", "-", "i", "m", "a", "g", "e", "s", "/">>
S_ad == <<"a", "d", "_">>
S_gemini == <<"g", "e", "m", "i", "n", "i", "-", "2", ".", "5">>

HexDigits == {"0", "1", "2", "3", "4", "5", "6", "7", "8", "9",
              "a", "b", "c", "d", "e", "f"}

\* Python truthiness of an optional string: None and "" are falsy.
Truthy(v) == v # NoneS /\ v # AbsentS /\ v # <<>>

\* Python `a or b`.
Or(a, b) == IF Truthy(a) THEN a ELSE b

\* Python `sub in s` on strings: sub occurs as a contiguous substring of s.
Contains(sub, s) ==
    \E i \in 1..(Len(s) - Len(sub) + 1) : SubSeq(s, i, i + Len(sub) - 1) = sub

----------------------------------------------------------------------------
\* GeminiImageGenerator.generate_image, lines 148-177

MSG_NO_IMAGE == "No image data found in Gemini response"
MSG_LEN_NONE == "object of type 'NoneType' has no len()"
MSG_GENAI_ERROR == "generate_content failed"

\* part.inline_data is None
InlineNone == [data |-> AbsentS, mime_type |-> AbsentS]

TextValues == {NoneS, <<"t">>}
DataValues == {NoneS, <<"b1">>}
MimeValues == {NoneS, <<>>, S_image_png, S_image_jpeg, S_image_PNG, S_image_apng}
InlineValues == {InlineNone} \cup [data : DataValues, mime_type : MimeValues]
Parts == [text : TextValues, inline_data : InlineValues]

SeqsUpTo(S, n) == UNION {[1..k -> S] : k \in 0..n}
Responses == SeqsUpTo(Parts, MaxParts)

Returned(bytes, mime, log) ==
    [kind |-> "return", image_bytes |-> bytes, mime_type |-> mime,
     error |-> "", log |-> log]
Raised(msg, log) ==
    [kind |-> "raise", image_bytes |-> NoneS, mime_type |-> NoneS,
     error |-> msg, log |-> log]
NotRun ==
    [kind |-> "none", image_bytes |-> NoneS, mime_type |-> NoneS,
     error |-> "", log |-> <<>>]

\* The loop of lines 168-177 from part i on; log holds the texts logged so far.
RECURSIVE GenerateLoop(_, _, _)
GenerateLoop(parts, i, log) ==
    IF i > Len(parts)
    THEN Raised(MSG_NO_IMAGE, log)
    ELSE LET part == parts[i] IN
         IF part.text # NoneS
         THEN GenerateLoop(parts, i + 1, Append(log, part.text))
         ELSE IF part.inline_data # InlineNone
         THEN IF part.inline_data.data = NoneS
              THEN Raised(MSG_LEN_NONE, log)      \* len(image_bytes), line 174
              ELSE Returned(part.inline_data.data,
                            Or(part.inline_data.mime_type, S_image_png), log)
         ELSE GenerateLoop(parts, i + 1, log)

GenerateImage(parts) == GenerateLoop(parts, 1, <<>>)

----------------------------------------------------------------------------
\* ImageKitUploader.upload, lines 80-129

MSG_UPLOAD_FAILED == "ImageKit upload failed or unexpected response"
MSG_IMAGEKIT_ERROR == "upload_file failed"

UrlValues == {AbsentS, NoneS, <<>>, <<"u1">>, ObjS}
FileIdValues == {AbsentS, NoneS, <<"f1">>}
NameValues == {AbsentS, NoneS, <<"n1">>}
ThumbValues == {AbsentS, NoneS, <<"t1">>}

\* The four values an upload response carries; AbsentS: the key or attribute
\* is missing.
FieldSets == [url : UrlValues, fileId : FileIdValues, name : NameValues,
              thumbnailUrl : ThumbValues]
NoFields == [url |-> AbsentS, fileId |-> AbsentS, name |-> AbsentS,
             thumbnailUrl |-> AbsentS]

\* An UploadFileResult: has_meta, result.response_metadata.raw exists;
\* raw_is_dict, it is a dict, with the keys of raw; the flat attributes
\* url, file_id, name, thumbnail_url.
UploadObject(has_meta, raw_is_dict, raw, flat) ==
    [has_meta |-> has_meta, raw_is_dict |-> raw_is_dict, raw |-> raw,
     url |-> flat.url, file_id |-> flat.fileId, name |-> flat.name,
     thumbnail_url |-> flat.thumbnailUrl]

NestedShape(f) == UploadObject(TRUE, TRUE, f, NoFields)
FlatShape(f) == UploadObject(FALSE, FALSE, NoFields, f)

UploadObjects ==
    {UploadObject(m[1], m[2], IF m[2] THEN raw ELSE NoFields, flat) :
        m \in {<<FALSE, FALSE>>, <<TRUE, FALSE>>, <<TRUE, TRUE>>},
        raw \in FieldSets, flat \in FieldSets}

\* dict.get(key, default) and getattr(obj, name, default)
Get(v, default) == IF v = AbsentS THEN default ELSE v

UploadReturned(url, file_id, name, thumb) ==
    [kind |-> "return", url |-> url, file_id |-> file_id, name |-> name,
     thumbnail_url |-> thumb, error |-> ""]
UploadRaised(msg) ==
    [kind |-> "raise", url |-> NoneS, file_id |-> NoneS, name |-> NoneS,
     thumbnail_url |-> NoneS, error |-> msg]
UploadNotRun ==
    [kind |-> "none", url |-> NoneS, file_id |-> NoneS, name |-> NoneS,
     thumbnail_url |-> NoneS, error |-> ""]

\* Lines 106-129, on the object upload_file returned.
Upload(result, fname) ==
    IF result.has_meta /\ result.raw_is_dict /\ result.raw.url # AbsentS
    THEN UploadReturned(result.raw.url,
                        Get(result.raw.fileId, NoneS),
                        Get(result.raw.name, fname),
                        Get(result.raw.thumbnailUrl, NoneS))
    ELSE IF result.url # AbsentS /\ Truthy(result.url)
    THEN UploadReturned(result.url,
                        Get(result.file_id, NoneS),
                        Get(result.name, fname),
                        Get(result.thumbnail_url, NoneS))
    ELSE UploadRaised(MSG_UPLOAD_FAILED)

----------------------------------------------------------------------------
\* main(), lines 180-234

MSG_NO_API_KEY == "Google API key not found. Set GOOGLE_API_KEY environment variable or pass api_key parameter"
MSG_NO_IMAGEKIT == "ImageKit credentials not found. Set IMAGEKIT_PRIVATE_KEY, IMAGEKIT_PUBLIC_KEY, and IMAGEKIT_URL_ENDPOINT environment variables"
MSG_CLIENT_ERROR == "client construction failed"
MSG_NOT_SERIALIZABLE == "Object is not JSON serializable"
NoExc == "<no exception>"
USAGE == "usage: generate_image.py ... error"

VariationChoices == {<<"A">>, <<"B">>}                    \* line 186
AspectChoices == {<<"1:1">>, <<"3:4">>, <<"4:3">>, <<"9:16">>, <<"16:9">>}  \* line 188

\* Command lines: AbsentS, the flag is not given.  api_key is the value of a
\* --api-key flag, extra says another flag the parser does not define is
\* present.
CommandLines ==
    [prompt : {AbsentS, <<"p">>},
     variation : {AbsentS, <<"B">>, <<"C">>},
     model : {AbsentS, <<"m">>},
     aspect_ratio : {AbsentS, <<"16:9">>, <<"2:1">>},
     campaign_id : {AbsentS, <<"c", "1">>},
     api_key : {AbsentS, <<"K">>},
     extra : BOOLEAN]

EnvValues == {NoneS, <<>>, <<"k">>}
Environments ==
    [GOOGLE_API_KEY : EnvValues, IMAGEKIT_PRIVATE_KEY : EnvValues,
     IMAGEKIT_PUBLIC_KEY : EnvValues, IMAGEKIT_URL_ENDPOINT : EnvValues]

\* uuid.uuid4().hex: 32 lower-case hexadecimal characters.
UUIDs ==
    {[i \in 1..32 |-> IF i % 2 = 1 THEN "3" ELSE "e"],
     [i \in 1..32 |-> IF i <= 8 THEN "0" ELSE "a"]}

\* The flags parse_args() accepts, lines 185-191: --prompt is required,
\* --variation and --aspect-ratio are restricted to their choices, and a
\* flag no add_argument call defines (--api-key among them) is an error.
ArgsAccepted(a) ==
    /\ a.prompt # AbsentS
    /\ a.variation # AbsentS => a.variation \in VariationChoices
    /\ a.aspect_ratio # AbsentS => a.aspect_ratio \in AspectChoices
    /\ a.api_key = AbsentS
    /\ ~a.extra

\* The Namespace parse_args() returns: defaults filled in.
Namespace(a) ==
    [prompt |-> a.prompt,
     variation |-> Get(a.variation, <<"A">>),
     model |-> Get(a.model, S_gemini),
     aspect_ratio |-> Get(a.aspect_ratio, <<"1:1">>),
     campaign_id |-> Get(a.campaign_id, S_default)]
NoArgs ==
    [prompt |-> AbsentS, variation |-> AbsentS, model |-> AbsentS,
     aspect_ratio |-> AbsentS, campaign_id |-> AbsentS]

\* GeminiImageGenerator.__init__, line 136: the key the generator uses.
GeneratorKey(api_key) == Or(api_key, env.GOOGLE_API_KEY)

\* Mutant of UploaderCredentials: any([...]) in place of all([...]).
UploaderCredentialsAny(private_key, public_key, url_endpoint) ==
    \/ Truthy(Or(private_key, env.IMAGEKIT_PRIVATE_KEY))
    \/ Truthy(Or(public_key, env.IMAGEKIT_PUBLIC_KEY))
    \/ Truthy(Or(url_endpoint, env.IMAGEKIT_URL_ENDPOINT))

\* ImageKitUploader.__init__, lines 63-67: all three credentials are truthy.
UploaderCredentials(private_key, public_key, url_endpoint) ==
    /\ Truthy(Or(private_key, env.IMAGEKIT_PRIVATE_KEY))
    /\ Truthy(Or(public_key, env.IMAGEKIT_PUBLIC_KEY))
    /\ Truthy(Or(url_endpoint, env.IMAGEKIT_URL_ENDPOINT))

\* Mutant of Ext: the media type compared with "image/png" for equality.
ExtEquals(mime) == IF mime = S_image_png THEN S_png ELSE S_jpg

\* Line 206
Ext(mime) == IF Contains(S_png, mime) THEN S_png ELSE S_jpg

\* Line 207
Filename(a, mime, uuid) ==
    S_ad \o a.campaign_id \o <<"_">> \o a.variation \o <<"_">>
         \o SubSeq(uuid, 1, 8) \o <<".">> \o Ext(mime)

\* Line 210
Folder(a) == S_ad_images \o a.campaign_id

\* Lines 214-222
SuccessObject(a, up, mime) ==
    [success |-> TRUE, variation_id |-> a.variation, image_url |-> up.url,
     thumbnail_url |-> up.thumbnail_url, file_id |-> up.file_id,
     mime_type |-> mime, prompt_used |-> a.prompt, error |-> AbsentS]

\* Lines 229-233
ErrorObject(a, msg) ==
    [success |-> FALSE, variation_id |-> a.variation, image_url |-> AbsentS,
     thumbnail_url |-> AbsentS, file_id |-> AbsentS, mime_type |-> AbsentS,
     prompt_used |-> AbsentS, error |-> <<msg>>]

\* json.dumps raises TypeError on a value it has no encoding for.
Serializable(obj) ==
    /\ obj.image_url # ObjS
    /\ obj.thumbnail_url # ObjS
    /\ obj.file_id # ObjS

\* Mutant of Except: the error object is printed but sys.exit(1) is missing,
\* so the process ends with status 0.
ExceptNoExit(msg) ==
    /\ exc' = msg
    /\ stdout' = Append(stdout, ErrorObject(args, msg))
    /\ exit_code' = 0
    /\ pc' = "exited"

\* The except clause, lines 227-234.
Except(msg) ==
    /\ exc' = msg
    /\ stdout' = Append(stdout, ErrorObject(args, msg))
    /\ exit_code' = 1
    /\ pc' = "exited"

\* Lines 182-191.  parser.error() writes the usage to standard error and
\* exits with status 2.
ParseArgs ==
    /\ pc = "start"
    /\ IF ArgsAccepted(argv)
       THEN /\ args' = Namespace(argv)
            /\ pc' = "init_generator"
            /\ UNCHANGED <<stderr, exit_code>>
       ELSE /\ stderr' = Append(stderr, USAGE)
            /\ exit_code' = 2
            /\ pc' = "exited"
            /\ UNCHANGED args
    /\ UNCHANGED <<argv, env, image_bytes, mime_type, filename, folder,
                   upload_result, exc, stdout, genaiClient, imagekitClient,
                   genCalls, uploadCalls>>
    /\ UNCHANGED <<genVars, uplVars>>

\* Mutant of InitGenerator: genai.Client() is built before the key is checked.
InitGeneratorClientFirst ==
    /\ pc = "init_generator"
    /\ genaiClient' = TRUE
    /\ LET key == GeneratorKey(NoneS) IN
       IF ~Truthy(key)
       THEN /\ Except(MSG_NO_API_KEY)
            /\ UNCHANGED env
       ELSE /\ env' = [env EXCEPT !.GOOGLE_API_KEY = key]
            /\ \E ok \in BOOLEAN :
                 IF ok
                 THEN /\ pc' = "init_uploader"
                      /\ UNCHANGED <<exc, stdout, exit_code>>
                 ELSE Except(MSG_CLIENT_ERROR)
    /\ UNCHANGED <<argv, args, image_bytes, mime_type, filename, folder,
                   upload_result, stderr, imagekitClient, genCalls, uploadCalls>>
    /\ UNCHANGED <<genVars, uplVars>>

\* Line 195: GeminiImageGenerator(), lines 135-146.  ok: genai.Client()
\* returned rather than raised.
InitGenerator ==
    /\ pc = "init_generator"
    /\ LET key == GeneratorKey(NoneS) IN
       IF ~Truthy(key)
       THEN /\ Except(MSG_NO_API_KEY)
            /\ UNCHANGED <<env, genaiClient>>
       ELSE /\ env' = [env EXCEPT !.GOOGLE_API_KEY = key]
            /\ genaiClient' = TRUE
            /\ \E ok \in BOOLEAN :
                 IF ok
                 THEN /\ pc' = "init_uploader"
                      /\ UNCHANGED <<exc, stdout, exit_code>>
                 ELSE Except(MSG_CLIENT_ERROR)
    /\ UNCHANGED <<argv, args, image_bytes, mime_type, filename, folder,
                   upload_result, stderr, imagekitClient, genCalls, uploadCalls>>
    /\ UNCHANGED <<genVars, uplVars>>

\* Line 196: ImageKitUploader(), lines 57-78.
InitUploader ==
    /\ pc = "init_uploader"
    /\ IF ~UploaderCredentials(NoneS, NoneS, NoneS)
       THEN /\ Except(MSG_NO_IMAGEKIT)
            /\ UNCHANGED imagekitClient
       ELSE /\ imagekitClient' = TRUE
            /\ \E ok \in BOOLEAN :
                 IF ok
                 THEN /\ pc' = "generate"
                      /\ UNCHANGED <<exc, stdout, exit_code>>
                 ELSE Except(MSG_CLIENT_ERROR)
    /\ UNCHANGED <<argv, env, args, image_bytes, mime_type, filename, folder,
                   upload_result, stderr, genaiClient, genCalls, uploadCalls>>
    /\ UNCHANGED <<genVars, uplVars>>

\* What the generate_content call of line 157 can do: fail, or answer.
GenerateOutcomes ==
    {Raised(MSG_GENAI_ERROR, <<>>)} \cup {GenerateImage(r) : r \in Responses}

\* Mutant of CallGenerateImage: a failed generation is swallowed and main()
\* goes on to the upload.
CallGenerateImageSwallow ==
    /\ pc = "generate"
    /\ genCalls' = genCalls + 1
    /\ \E out \in GenerateOutcomes :
         /\ image_bytes' = out.image_bytes
         /\ mime_type' = Or(out.mime_type, S_image_png)
         /\ pc' = "upload"
         /\ UNCHANGED <<exc, stdout, exit_code>>
    /\ UNCHANGED <<argv, env, args, filename, folder, upload_result, stderr,
                   genaiClient, imagekitClient, uploadCalls>>
    /\ UNCHANGED <<genVars, uplVars>>

\* Lines 199-203: generator.generate_image(...).
CallGenerateImage ==
    /\ pc = "generate"
    /\ genCalls' = genCalls + 1
    /\ \E out \in GenerateOutcomes :
         IF out.kind = "return"
         THEN /\ image_bytes' = out.image_bytes
              /\ mime_type' = out.mime_type
              /\ pc' = "upload"
              /\ UNCHANGED <<exc, stdout, exit_code>>
         ELSE /\ Except(out.error)
              /\ UNCHANGED <<image_bytes, mime_type>>
    /\ UNCHANGED <<argv, env, args, filename, folder, upload_result, stderr,
                   genaiClient, imagekitClient, uploadCalls>>
    /\ UNCHANGED <<genVars, uplVars>>

\* What uploader.upload can do for file name fname: upload_file fails, or
\* answers with an object that lines 106-129 normalise.
UploadOutcomes(fname) ==
    {UploadRaised(MSG_IMAGEKIT_ERROR)} \cup {Upload(r, fname) : r \in UploadObjects}

\* Lines 205-211: file name, folder, uploader.upload(...).
CallUpload ==
    /\ pc = "upload"
    /\ uploadCalls' = uploadCalls + 1
    /\ \E uuid \in UUIDs :
         /\ filename' = Filename(args, mime_type, uuid)
         /\ folder' = Folder(args)
         /\ \E out \in UploadOutcomes(filename') :
              IF out.kind = "return"
              THEN /\ upload_result' = out
                   /\ pc' = "output"
                   /\ UNCHANGED <<exc, stdout, exit_code>>
              ELSE /\ Except(out.error)
                   /\ UNCHANGED upload_result
    /\ UNCHANGED <<argv, env, args, image_bytes, mime_type, stderr,
                   genaiClient, imagekitClient, genCalls>>
    /\ UNCHANGED <<genVars, uplVars>>

\* Lines 213-225: build the result, print it, exit 0.
Output ==
    /\ pc = "output"
    /\ LET result == SuccessObject(args, upload_result, mime_type) IN
       IF Serializable(result)
       THEN /\ stdout' = Append(stdout, result)
            /\ exit_code' = 0
            /\ pc' = "exited"
            /\ UNCHANGED exc
       ELSE Except(MSG_NOT_SERIALIZABLE)
    /\ UNCHANGED <<argv, env, args, image_bytes, mime_type, filename, folder,
                   upload_result, stderr, genaiClient, imagekitClient,
                   genCalls, uploadCalls>>
    /\ UNCHANGED <<genVars, uplVars>>

MainIdle ==
    /\ pc = "start"
    /\ args = NoArgs
    /\ image_bytes = NoneS
    /\ mime_type = NoneS
    /\ filename = NoneS
    /\ folder = NoneS
    /\ upload_result = UploadNotRun
    /\ exc = NoExc
    /\ stdout = <<>>
    /\ stderr = <<>>
    /\ exit_code = -1
    /\ genaiClient = FALSE
    /\ imagekitClient = FALSE
    /\ genCalls = 0
    /\ uploadCalls = 0

IsolatedIdle ==
    /\ response = <<>>
    /\ generated = NotRun
    /\ fields = NoFields
    /\ requested = NoneS
    /\ nestedResult = UploadNotRun
    /\ flatResult = UploadNotRun

Init ==
    /\ argv \in CommandLines
    /\ env \in Environments
    /\ MainIdle
    /\ IsolatedIdle

Next ==
    \/ ParseArgs
    \/ InitGenerator
    \/ InitUploader
    \/ CallGenerateImage
    \/ CallUpload
    \/ Output

Spec == Init /\ [][Next]_vars

----------------------------------------------------------------------------
\* generate_image on its own: one response, one application.

\* main() is not running.
MainNotStarted ==
    /\ argv = [prompt |-> AbsentS, variation |-> AbsentS, model |-> AbsentS,
               aspect_ratio |-> AbsentS, campaign_id |-> AbsentS,
               api_key |-> AbsentS, extra |-> FALSE]
    /\ env = [GOOGLE_API_KEY |-> NoneS, IMAGEKIT_PRIVATE_KEY |-> NoneS,
              IMAGEKIT_PUBLIC_KEY |-> NoneS, IMAGEKIT_URL_ENDPOINT |-> NoneS]
    /\ MainIdle

InitGenerate ==
    /\ MainNotStarted
    /\ response \in Responses
    /\ generated = NotRun
    /\ fields = NoFields
    /\ requested = NoneS
    /\ nestedResult = UploadNotRun
    /\ flatResult = UploadNotRun

RunGenerateImage ==
    /\ generated = NotRun
    /\ generated' = GenerateImage(response)
    /\ UNCHANGED <<response, mainVars, uplVars>>

SpecGenerate == InitGenerate /\ [][RunGenerateImage]_vars

----------------------------------------------------------------------------
\* upload on its own: the same four values carried once in the nested
\* metadata object and once as flat attributes.

RequestedNames == {<<"a", ".", "p", "n", "g">>, <<"b", ".", "j", "p", "g">>}

InitUpload ==
    /\ MainNotStarted
    /\ response = <<>>
    /\ generated = NotRun
    /\ fields \in FieldSets
    /\ requested \in RequestedNames
    /\ nestedResult = UploadNotRun
    /\ flatResult = UploadNotRun

UploadNested ==
    /\ nestedResult = UploadNotRun
    /\ nestedResult' = Upload(NestedShape(fields), requested)
    /\ UNCHANGED <<fields, requested, flatResult, mainVars, genVars>>

UploadFlat ==
    /\ flatResult = UploadNotRun
    /\ flatResult' = Upload(FlatShape(fields), requested)
    /\ UNCHANGED <<fields, requested, nestedResult, mainVars, genVars>>

NextUpload == UploadNested \/ UploadFlat

SpecUpload == InitUpload /\ [][NextUpload]_vars

----------------------------------------------------------------------------
\* Properties of main(), checked under Spec

\* stdout holds exactly one object, and it is a failure object
PrintedFailure ==
    /\ Len(stdout) = 1
    /\ stdout[1].success = FALSE

\* stdout holds exactly one object, and it is a success object
PrintedSuccess ==
    /\ Len(stdout) = 1
    /\ stdout[1].success = TRUE

\* C1: with valid flags and GOOGLE_API_KEY unset or empty, main() ends with
\* a success == false object and exit code 1, and up to that exit the Gemini
\* client is not constructed and neither generate_content nor upload_file is
\* called.
C1_MissingGoogleKey ==
    (ArgsAccepted(argv) /\ ~Truthy(env.GOOGLE_API_KEY)) =>
        /\ ~genaiClient
        /\ genCalls = 0
        /\ uploadCalls = 0
        /\ pc \in {"start", "init_generator", "exited"}
        /\ pc = "exited" => (exit_code = 1 /\ PrintedFailure)

C1_Witness ==
    /\ ArgsAccepted(argv)
    /\ env.GOOGLE_API_KEY = <<>>
    /\ pc = "exited"
    /\ exc = MSG_NO_API_KEY

\* C2: with GOOGLE_API_KEY set and one of the three ImageKit variables unset
\* or empty, main() ends with a success == false object and exit code 1 and
\* generate_content is never called, for every --variation.
C2_MissingImageKit ==
    (/\ ArgsAccepted(argv)
     /\ Truthy(env.GOOGLE_API_KEY)
     /\ \/ ~Truthy(env.IMAGEKIT_PRIVATE_KEY)
        \/ ~Truthy(env.IMAGEKIT_PUBLIC_KEY)
        \/ ~Truthy(env.IMAGEKIT_URL_ENDPOINT)) =>
        /\ genCalls = 0
        /\ uploadCalls = 0
        /\ pc \in {"start", "init_generator", "init_uploader", "exited"}
        /\ pc = "exited" => (exit_code = 1 /\ PrintedFailure)

C2_Witness ==
    /\ pc = "exited"
    /\ exc = MSG_NO_IMAGEKIT
    /\ args.variation = <<"A">>
    /\ Truthy(env.IMAGEKIT_PRIVATE_KEY)
    /\ Truthy(env.IMAGEKIT_PUBLIC_KEY)
    /\ env.IMAGEKIT_URL_ENDPOINT = NoneS

\* C3: once a step after flag parsing has raised, main() has printed exactly
\* one object, with success == false and the exception's message as error,
\* and exited with code 1; a run that printed a success object or exited 0
\* raised nothing.
C3_ErrorsCaught ==
    /\ Len(stdout) <= 1
    /\ exc # NoExc =>
         /\ pc = "exited"
         /\ exit_code = 1
         /\ PrintedFailure
         /\ stdout[1].error = <<exc>>
    /\ (exit_code = 0 \/ (Len(stdout) = 1 /\ stdout[1].success)) => exc = NoExc

C3_Witness ==
    /\ exc = MSG_NOT_SERIALIZABLE
    /\ pc = "exited"
    /\ uploadCalls = 1

\* C4: a command line that flag parsing rejects ends with exit code 1 and a
\* success == false object on standard output.
C4_InvalidArgumentsExitOne ==
    (~ArgsAccepted(argv) /\ argv.api_key = AbsentS /\ pc = "exited") =>
        (exit_code = 1 /\ PrintedFailure)

\* C5: a command line that is valid but for an added --api-key K is not
\* rejected by flag parsing, and the generator is constructed with key K.
C5_ApiKeyFlagAccepted ==
    (/\ argv.api_key # AbsentS
     /\ ArgsAccepted([argv EXCEPT !.api_key = AbsentS])
     /\ pc = "exited") =>
        (exit_code # 2 /\ genaiClient /\ env.GOOGLE_API_KEY = argv.api_key)

\* C7: generate_content is called at most once, upload_file at most once and
\* only after generate_image returned an image, and when the response has
\* no image part upload_file is never called and main() exits with code 1.
C7_LinearSingleAttempt ==
    /\ genCalls <= 1
    /\ uploadCalls <= 1
    /\ uploadCalls = 1 => (genCalls = 1 /\ image_bytes # NoneS)
    /\ genCalls = 1 => pc \in {"upload", "output", "exited"}
    /\ exc = MSG_NO_IMAGE => (uploadCalls = 0 /\ pc = "exited" /\ exit_code = 1)

C7_Witness ==
    /\ exc = MSG_NO_IMAGE
    /\ genCalls = 1
    /\ pc = "exited"

\* C9: a run that exits with code 0 printed success == true with an
\* image_url that is a non-empty string, an upload that returned has a
\* non-empty url, and the exit code is 0 exactly when the printed object has
\* success == true.
C9_SuccessCarriesUrl ==
    /\ pc \in {"output", "exited"} /\ upload_result.kind = "return"
         => Truthy(upload_result.url)
    /\ pc = "exited" =>
         /\ exit_code = 0 <=> PrintedSuccess
         /\ exit_code = 0 => Truthy(stdout[1].image_url)

\* C10: the upload file name is ad_{campaign}_{variation}_{8 hex
\* characters}.{ext}, with ext "png" if and only if the media type the
\* generator returned contains "png" and "jpg" otherwise, and the folder is
\* ad-images/{campaign}.
C10_FilenameForm ==
    filename # NoneS =>
        LET c == args.campaign_id
            v == args.variation
            h == Len(S_ad) + Len(c) + 1 + Len(v) + 1
            n == Len(filename)
            ext == SubSeq(filename, n - 2, n)
        IN  /\ n = h + 8 + 1 + 3
            /\ SubSeq(filename, 1, h) = S_ad \o c \o <<"_">> \o v \o <<"_">>
            /\ \A i \in (h + 1)..(h + 8) : filename[i] \in HexDigits
            /\ filename[h + 9] = "."
            /\ ext \in {S_png, S_jpg}
            /\ ext = S_png <=> Contains(S_png, mime_type)
            /\ folder = S_ad_images \o c

C10_Witness ==
    /\ pc = "output"
    /\ mime_type = S_image_apng
    /\ args.campaign_id = <<"c", "1">>
    /\ args.variation = <<"B">>

----------------------------------------------------------------------------
\* Properties of generate_image, checked under SpecGenerate

\* The part carries an image payload.
CarriesImage(part) ==
    /\ part.inline_data # InlineNone
    /\ part.inline_data.data # NoneS

\* C6: generate_image returns the bytes and the media type of the first part
\* that carries an image payload, and raises exactly when no part carries
\* one.
C6_FirstImagePayload ==
    generated # NotRun =>
        LET images == {i \in 1..Len(response) : CarriesImage(response[i])} IN
        IF images = {}
        THEN generated.kind = "raise"
        ELSE LET first == CHOOSE i \in images : \A j \in images : i <= j IN
             /\ generated.kind = "return"
             /\ generated.image_bytes = response[first].inline_data.data
             /\ generated.mime_type =
                    Or(response[first].inline_data.mime_type, S_image_png)

----------------------------------------------------------------------------
\* Properties of upload, checked under SpecUpload

\* C8: the nested-metadata shape and the flat-attribute shape of the same
\* url, file id, name and thumbnail url give the same outcome.
C8_ShapesAgree ==
    (nestedResult # UploadNotRun /\ flatResult # UploadNotRun) =>
        nestedResult = flatResult

====
